---- MODULE Spec2Model ----
(***************************************************************************)
(* Model of the latlng2minecraft / kakiko2minecraft coordinate converter   *)
(* (converter.py) and of its command-line layer (__main__.py).             *)
(*                                                                         *)
(* Python floats are modelled as decimal fixed-point numbers with sixteen   *)
(* fractional digits, held as arbitrary-precision integers (sequences of   *)
(* base-10000 limbs), together with the special values NaN, +inf and -inf. *)
(* Every arithmetic step of the source is carried out on these numbers in  *)
(* the order the source performs it; math.sin, math.cos, math.sqrt and     *)
(* math.pow are computed by series and Newton iterations to the precision  *)
(* of the representation.                                                  *)
(***************************************************************************)
EXTENDS Integers, Sequences, FiniteSets, TLC

\* an assignment "name = value" followed by the statements that use the
\* name: Let(value, LAMBDA name : rest)
Let(v, Body(_)) == Body(v)

(***************************************************************************)
(* Arbitrary-precision naturals: little-endian sequences of limbs in       *)
(* 0..LIMB-1 without most-significant zero limbs; <<>> is zero.  The       *)
(* arithmetic is given as functions, which are applied to the values of    *)
(* their arguments.                                                        *)
(***************************************************************************)
LIMB == 100 * 100
NatSeq == Seq(Nat)

Max2(x, y) == IF x >= y THEN x ELSE y
Min2(x, y) == IF x <= y THEN x ELSE y
SetMax(S) == CHOOSE m \in S : \A k \in S : k <= m

NLimb(a, i) == IF i >= 1 /\ i <= Len(a) THEN a[i] ELSE 0

\* a without its most-significant zero limbs
NNorm[a \in NatSeq] ==
    IF Len(a) = 0 \/ a[Len(a)] # 0 THEN a
    ELSE IF \A i \in 1..Len(a) : a[i] = 0 THEN <<>>
    ELSE SubSeq(a, 1, SetMax({i \in 1..Len(a) : a[i] # 0}))

\* one round of carrying: every entry keeps its low limb and receives the
\* overflow of the entry below it
NPass[raw \in NatSeq] ==
    [i \in 1..(Len(raw) + 1) |->
        (NLimb(raw, i) % LIMB) + (NLimb(raw, i - 1) \div LIMB)] \o <<>>

\* the carry into position i of p, whose entries are at most LIMB
NCarryIn(p, i) ==
    IF \E j \in 1..(i - 1) :
          p[j] >= LIMB /\ \A k \in (j + 1)..(i - 1) : p[k] = LIMB - 1
    THEN 1 ELSE 0

NRipple[p \in NatSeq] ==
    IF \A j \in 1..Len(p) : p[j] < LIMB THEN p
    ELSE [i \in 1..(Len(p) + 1) |-> (NLimb(p, i) + NCarryIn(p, i)) % LIMB] \o <<>>

\* raw: sequence of non-negative integers (possibly >= LIMB); propagates carries
NCarry[raw \in NatSeq] == NNorm[NRipple[NPass[NPass[NPass[raw]]]]]

NFromInt[n \in Nat] == NCarry[<<n>>]

NAdd[a \in NatSeq, b \in NatSeq] ==
    NCarry[[i \in 1..Max2(Len(a), Len(b)) |-> NLimb(a, i) + NLimb(b, i)] \o <<>>]

\* -1, 0, 1 as a < b, a = b, a > b (both normalised, of one length):
\* decided at the most significant limb of diff, where they differ
NCmpAt(a, b, diff) ==
    IF diff = {} THEN 0
    ELSE IF a[SetMax(diff)] > b[SetMax(diff)] THEN 1 ELSE -1

\* -1, 0, 1 as a < b, a = b, a > b (both normalised)
NCmp[a \in NatSeq, b \in NatSeq] ==
    IF Len(a) > Len(b) THEN 1
    ELSE IF Len(a) < Len(b) THEN -1
    ELSE NCmpAt(a, b, {i \in 1..Len(a) : a[i] # b[i]})

\* the borrow taken from position i in a - b
NBorrowIn(a, b, i) ==
    IF \E j \in 1..(i - 1) :
          a[j] < NLimb(b, j) /\ \A k \in (j + 1)..(i - 1) : a[k] <= NLimb(b, k)
    THEN 1 ELSE 0

\* a - b for a >= b
NSub[a \in NatSeq, b \in NatSeq] ==
    NNorm[[i \in 1..Len(a) |->
              (a[i] - NLimb(b, i) - NBorrowIn(a, b, i) + LIMB) % LIMB] \o <<>>]

\* a * k for a small multiplier 0 <= k <= 200000
NMulSmall[a \in NatSeq, k \in Nat] == NCarry[[i \in 1..Len(a) |-> a[i] * k] \o <<>>]

\* sum of a[i] * b[k + 1 - i] for i in lo..hi
NConv[a \in NatSeq, b \in NatSeq, k \in Nat, lo \in Nat, hi \in Nat] ==
    IF lo > hi THEN 0
    ELSE IF lo = hi THEN a[lo] * b[k + 1 - lo]
    ELSE NConv[a, b, k, lo, (lo + hi) \div 2]
         + NConv[a, b, k, (lo + hi) \div 2 + 1, hi]

NMul[a \in NatSeq, b \in NatSeq] ==
    IF Len(a) = 0 \/ Len(b) = 0 THEN <<>>
    ELSE NCarry[[k \in 1..(Len(a) + Len(b) - 1) |->
                    NConv[a, b, k, Max2(1, k + 1 - Len(b)), Min2(Len(a), k)]] \o <<>>]

\* a * LIMB^n
NShiftL[a \in NatSeq, n \in Nat] == IF Len(a) = 0 THEN <<>> ELSE [i \in 1..n |-> 0] \o a

\* floor(a / LIMB^n)
NShiftR[a \in NatSeq, n \in Nat] == IF Len(a) <= n THEN <<>> ELSE SubSeq(a, n + 1, Len(a))

NDivSmallRec[a \in NatSeq, k \in Nat, i \in Nat, r \in Nat, acc \in NatSeq] ==
    IF i = 0 THEN NNorm[acc]
    ELSE NDivSmallRec[a, k, i - 1, (r * LIMB + a[i]) % k,
                      <<(r * LIMB + a[i]) \div k>> \o acc]

\* floor(a / k) for a small divisor 1 <= k <= 200000
NDivSmall[a \in NatSeq, k \in Nat] == NDivSmallRec[a, k, Len(a), 0, <<>>]

\* largest q <= qhat with d * q <= r
NFixQ[r \in NatSeq, d \in NatSeq, qhat \in Nat] ==
    IF NCmp[NMulSmall[d, qhat], r] <= 0 THEN qhat ELSE NFixQ[r, d, qhat - 1]

\* the quotient limb of r by d, estimated from the leading limbs
NQuot[r \in NatSeq, d \in NatSeq] ==
    NFixQ[r, d, Min2(LIMB - 1,
                     (NLimb(r, Len(d) + 1) * LIMB + NLimb(r, Len(d))) \div d[Len(d)])]

\* schoolbook long division; d is normalised so that its top limb >= LIMB \div 2
NDivRec[a \in NatSeq, d \in NatSeq, i \in Nat, r \in NatSeq, acc \in NatSeq] ==
    IF i = 0 THEN NNorm[acc]
    ELSE LET r1 == NNorm[<<a[i]>> \o r]
             q  == NQuot[r1, d]
         IN  NDivRec[a, d, i - 1, NSub[r1, NMulSmall[d, q]], <<q>> \o acc]

\* long division of n by d once both are scaled
NDivScaled[n \in NatSeq, d \in NatSeq] ==
    IF Len(n) < Len(d) THEN <<>>
    ELSE NDivRec[n, d, Len(n) - Len(d) + 1,
                 SubSeq(n, Len(n) - Len(d) + 2, Len(n)), <<>>]

\* floor(a / b) for b > 0
NDiv[a \in NatSeq, b \in NatSeq] ==
    NDivScaled[NMulSmall[a, LIMB \div (b[Len(b)] + 1)],
               NMulSmall[b, LIMB \div (b[Len(b)] + 1)]]

(***************************************************************************)
(* Python floats.  A finite float is [k |-> "fin", neg, mag]: the value    *)
(* (-1)^neg * mag / LIMB^FRAC, mag an arbitrary-precision natural.  NaN   *)
(* and the infinities are values of their own.  An operation that raises  *)
(* in Python (math.sin(inf), division by zero) yields a value whose k is   *)
(* the name of the exception; it is handed on unchanged by every later    *)
(* operation, so the first exception raised is the one reported.           *)
(***************************************************************************)
ONE == <<0, 0, 0, 0, 1>>
FRAC == Len(ONE) - 1
HALF == <<0, 0, 0, LIMB \div 2>>

Fin(neg, mag) == [k |-> "fin", neg |-> (neg /\ Len(mag) # 0), mag |-> mag]
NaN == [k |-> "nan", neg |-> FALSE, mag |-> <<>>]
Inf(neg) == [k |-> "inf", neg |-> neg, mag |-> <<>>]
Raised(e) == [k |-> e, neg |-> FALSE, mag |-> <<>>]
ExcNames == {"ValueError", "OverflowError", "ZeroDivisionError", "TypeError"}
Float == [k : {"fin", "nan", "inf"} \cup ExcNames, neg : BOOLEAN, mag : NatSeq]
IsExc(a) == a.k \in ExcNames
IsFin(a) == a.k = "fin"
IsZero(a) == a.k = "fin" /\ Len(a.mag) = 0

\* the float of an integer n
FInt[n \in Int] ==
    IF n < 0 THEN [k |-> "fin", neg |-> TRUE, mag |-> NShiftL[NFromInt[-n], FRAC]]
    ELSE [k |-> "fin", neg |-> FALSE, mag |-> NShiftL[NFromInt[n], FRAC]]

\* the float whose decimal expansion is ip.f1 f2 f3 f4 (four groups of four digits)
FDec(neg, ip, f1, f2, f3, f4) == Fin(neg, NNorm[<<f4, f3, f2, f1>> \o NFromInt[ip]])

FNeg[a \in Float] ==
    IF a.k = "fin" THEN Fin(~a.neg, a.mag)
    ELSE IF a.k = "inf" THEN Inf(~a.neg)
    ELSE a

FAddFin[a \in Float, b \in Float] ==
    IF a.neg = b.neg THEN Fin(a.neg, NAdd[a.mag, b.mag])
    ELSE IF NCmp[a.mag, b.mag] >= 0 THEN Fin(a.neg, NSub[a.mag, b.mag])
    ELSE Fin(b.neg, NSub[b.mag, a.mag])

\* a + b
FAdd[a \in Float, b \in Float] ==
    IF IsExc(a) THEN a
    ELSE IF IsExc(b) THEN b
    ELSE IF a.k = "nan" \/ b.k = "nan" THEN NaN
    ELSE IF a.k = "inf" THEN (IF b.k = "inf" /\ a.neg # b.neg THEN NaN ELSE a)
    ELSE IF b.k = "inf" THEN b
    ELSE FAddFin[a, b]

\* a - b
FSub[a \in Float, b \in Float] == FAdd[a, FNeg[b]]

\* a * b, rounded to the nearest representable value
FMul[a \in Float, b \in Float] ==
    IF IsExc(a) THEN a
    ELSE IF IsExc(b) THEN b
    ELSE IF a.k = "nan" \/ b.k = "nan" THEN NaN
    ELSE IF a.k = "inf" \/ b.k = "inf"
         THEN (IF IsZero(a) \/ IsZero(b) THEN NaN ELSE Inf(a.neg # b.neg))
    ELSE Fin(a.neg # b.neg, NShiftR[NAdd[NMul[a.mag, b.mag], HALF], FRAC])

\* a / b; Python raises ZeroDivisionError on a zero divisor
FDiv[a \in Float, b \in Float] ==
    IF IsExc(a) THEN a
    ELSE IF IsExc(b) THEN b
    ELSE IF IsZero(b) THEN Raised("ZeroDivisionError")
    ELSE IF a.k = "nan" \/ b.k = "nan" THEN NaN
    ELSE IF a.k = "inf" THEN (IF b.k = "inf" THEN NaN ELSE Inf(a.neg # b.neg))
    ELSE IF b.k = "inf" THEN Fin(FALSE, <<>>)
    ELSE Fin(a.neg # b.neg,
             NDiv[NAdd[NShiftL[a.mag, FRAC], NDivSmall[b.mag, 2]], b.mag])

\* a / n for a small positive integer n
FDivInt[a \in Float, n \in Nat] ==
    IF a.k = "fin" THEN Fin(a.neg, NDivSmall[NAdd[a.mag, NFromInt[n \div 2]], n])
    ELSE a

\* a < b for finite a, b
FLess[a \in Float, b \in Float] ==
    IF a.neg /\ ~b.neg THEN TRUE
    ELSE IF ~a.neg /\ b.neg THEN FALSE
    ELSE IF a.neg THEN NCmp[a.mag, b.mag] > 0
    ELSE NCmp[a.mag, b.mag] < 0

FAbs[a \in Float] ==
    IF a.k = "fin" THEN Fin(FALSE, a.mag) ELSE IF a.k = "inf" THEN Inf(FALSE) ELSE a

\* x * x
FSquare[x \in Float] == FMul[x, x]

(***************************************************************************)
(* The math module: pi, radians, degrees, sin, cos, sqrt, pow(x, 1.5).     *)
(***************************************************************************)
PI == FDec(FALSE, 3, 1415, 9265, 3589, 7932)
TWO_PI == FAdd[PI, PI]
HALF_PI == FDivInt[PI, 2]

\* math.radians(x) = x * pi / 180
Radians[x \in Float] == FDivInt[FMul[x, PI], 180]

\* math.degrees(x) = x * 180 / pi
Degrees[x \in Float] == FDiv[FMul[x, FInt[180]], PI]

\* acc + term - term*x^2/((n+1)(n+2)) + ... : the Maclaurin series, summed
\* until its terms vanish in the representation
SinSeries[x2 \in Float, term \in Float, n \in Nat, acc \in Float] ==
    IF IsZero(term) THEN acc
    ELSE SinSeries[x2, FNeg[FDivInt[FMul[term, x2], (n + 1) * (n + 2)]], n + 2,
                   FAdd[acc, term]]

\* x - 2 pi * round(x / (2 pi)), in [-pi, pi]
ReduceAngle[x \in Float] ==
    IF ~FLess[PI, FAbs[x]] THEN x
    ELSE FSub[x, Fin(x.neg, NMul[NDiv[NAdd[x.mag, PI.mag], TWO_PI.mag], TWO_PI.mag])]

\* r in [-pi, pi] folded into [-pi/2, pi/2] with the same sine
FoldAngle[r \in Float] ==
    IF FLess[HALF_PI, r] THEN FSub[PI, r]
    ELSE IF FLess[r, FNeg[HALF_PI]] THEN FSub[FNeg[PI], r]
    ELSE r

\* the sine of q in [-pi/2, pi/2]
SinFolded[q \in Float] == SinSeries[FSquare[q], q, 1, FInt[0]]

\* sin of a finite x
SinFin[x \in Float] == SinFolded[FoldAngle[ReduceAngle[x]]]

\* cos of r in [0, pi]
CosFolded[r \in Float] ==
    IF FLess[HALF_PI, r]
    THEN FNeg[SinSeries[FSquare[FSub[PI, r]], FInt[1], 0, FInt[0]]]
    ELSE SinSeries[FSquare[r], FInt[1], 0, FInt[0]]

\* cos of a finite x
CosFin[x \in Float] == CosFolded[FAbs[ReduceAngle[x]]]

\* math.sin: nan for nan, ValueError (math domain error) for an infinity
FSin[x \in Float] ==
    IF IsExc(x) THEN x
    ELSE IF x.k = "nan" THEN NaN
    ELSE IF x.k = "inf" THEN Raised("ValueError")
    ELSE SinFin[x]

\* math.cos: as math.sin
FCos[x \in Float] ==
    IF IsExc(x) THEN x
    ELSE IF x.k = "nan" THEN NaN
    ELSE IF x.k = "inf" THEN Raised("ValueError")
    ELSE CosFin[x]

\* Newton's iteration from above for the integer square root of n:
\* y is the iterate after x
NSqrtRec[n \in NatSeq, x \in NatSeq, y \in NatSeq] ==
    IF NCmp[y, x] >= 0 THEN x
    ELSE NSqrtRec[n, y, NDivSmall[NAdd[y, NDiv[n, y]], 2]]

ISqrtRec[n \in Nat, x \in Nat] ==
    IF (x + n \div x) \div 2 >= x THEN x ELSE ISqrtRec[n, (x + n \div x) \div 2]

\* floor(sqrt(n)) of a machine integer 0 <= n < LIMB^2
ISqrt[n \in Nat] == IF n = 0 THEN 0 ELSE ISqrtRec[n, LIMB]

\* the leading one (odd length) or two (even length) limbs of n
NLead(n) ==
    IF Len(n) % 2 = 1 THEN n[Len(n)] ELSE n[Len(n)] * LIMB + n[Len(n) - 1]

\* the iteration from x0 >= sqrt(n)
NSqrtFrom[n \in NatSeq, x0 \in NatSeq] ==
    NSqrtRec[n, x0, NDivSmall[NAdd[x0, NDiv[n, x0]], 2]]

\* floor(sqrt(n)); the iteration starts from the root of the leading limbs
NSqrt[n \in NatSeq] ==
    IF Len(n) = 0 THEN <<>>
    ELSE NSqrtFrom[n, NShiftL[NFromInt[ISqrt[NLead(n)] + 1], (Len(n) - 1) \div 2]]

\* math.sqrt: ValueError below zero
FSqrt[x \in Float] ==
    IF IsExc(x) THEN x
    ELSE IF x.k = "nan" THEN NaN
    ELSE IF x.neg /\ ~IsZero(x) THEN Raised("ValueError")
    ELSE IF x.k = "inf" THEN x
    ELSE Fin(FALSE, NSqrt[NShiftL[x.mag, FRAC]])

\* math.pow(x, 1.5) = x * sqrt(x): ValueError below zero
FPow15[x \in Float] == FMul[x, FSqrt[x]]

\* the integer a natural below 2^31 stands for
NToInt(a) == NLimb(a, 1) + LIMB * NLimb(a, 2) + LIMB * LIMB * NLimb(a, 3)

\* round(x) of Python 3 for a finite x of integer part ip and fractional
\* part fr: to the nearest integer, ties to the even one
RoundFin[neg \in BOOLEAN, ip \in Nat, fr \in NatSeq] ==
    IF NCmp[fr, HALF] > 0 \/ (NCmp[fr, HALF] = 0 /\ ip % 2 = 1)
    THEN (IF neg THEN -(ip + 1) ELSE ip + 1)
    ELSE (IF neg THEN -ip ELSE ip)

\* PyRound with a guard that maps nan and the infinities to 0
PyRoundLenient(x) ==
    IF IsExc(x) THEN [exc |-> x.k, v |-> 0]
    ELSE IF x.k # "fin" THEN [exc |-> "none", v |-> 0]
    ELSE [exc |-> "none",
          v   |-> RoundFin[x.neg, NToInt(NShiftR[x.mag, FRAC]),
                           NNorm[SubSeq(x.mag, 1, Min2(FRAC, Len(x.mag)))]]]

\* round(x) of Python 3: ValueError for nan, OverflowError for an infinity
PyRound(x) ==
    IF IsExc(x) THEN [exc |-> x.k, v |-> 0]
    ELSE IF x.k = "nan" THEN [exc |-> "ValueError", v |-> 0]
    ELSE IF x.k = "inf" THEN [exc |-> "OverflowError", v |-> 0]
    ELSE [exc |-> "none",
          v   |-> RoundFin[x.neg, NToInt(NShiftR[x.mag, FRAC]),
                           NNorm[SubSeq(x.mag, 1, Min2(FRAC, Len(x.mag)))]]]

(***************************************************************************)
(* converter.py                                                            *)
(***************************************************************************)
EARTH_EQUATORIAL_RADIUS == FInt[6378137]
EARTH_ECCENTRICITY_SQUARED == FDec(FALSE, 0, 66, 9437, 9990, 1400)
METERS_PER_DEGREE == 111320
SOLVE_ITERATIONS == 3

\* 1 - EARTH_ECCENTRICITY_SQUARED * sin_lat * sin_lat
OneMinusE2Sin2(sin_lat) ==
    FSub[FInt[1], FMul[FMul[EARTH_ECCENTRICITY_SQUARED, sin_lat], sin_lat]]

\* MeridionalArcLength with the arc taken to the latitude itself, not to
\* its difference from the base
MeridionalArcFromEquator(delta_lat_rad, base_lat_rad) ==
    Let(FAdd[base_lat_rad, FDivInt[delta_lat_rad, 2]], LAMBDA avg_lat_rad :
    Let(FSin[avg_lat_rad], LAMBDA sin_lat :
    Let(FDiv[FMul[EARTH_EQUATORIAL_RADIUS, FSub[FInt[1], EARTH_ECCENTRICITY_SQUARED]],
             FPow15[OneMinusE2Sin2(sin_lat)]], LAMBDA rho :
        FMul[rho, FAdd[base_lat_rad, delta_lat_rad]])))

\* _meridional_arc_length(delta_lat_rad, base_lat_rad)
MeridionalArcLength(delta_lat_rad, base_lat_rad) ==
    Let(FAdd[base_lat_rad, FDivInt[delta_lat_rad, 2]], LAMBDA avg_lat_rad :
    Let(FSin[avg_lat_rad], LAMBDA sin_lat :
    Let(FDiv[FMul[EARTH_EQUATORIAL_RADIUS, FSub[FInt[1], EARTH_ECCENTRICITY_SQUARED]],
             FPow15[OneMinusE2Sin2(sin_lat)]], LAMBDA rho :
        FMul[rho, delta_lat_rad])))

\* ParallelRadius with the sine of the latitude where the cosine belongs
ParallelRadiusSine(lat_rad) ==
    Let(FSin[lat_rad], LAMBDA sin_lat :
        FDiv[FMul[EARTH_EQUATORIAL_RADIUS, FSin[lat_rad]],
             FSqrt[OneMinusE2Sin2(sin_lat)]])

\* _parallel_radius(lat_rad)
ParallelRadius(lat_rad) ==
    Let(FSin[lat_rad], LAMBDA sin_lat :
        FDiv[FMul[EARTH_EQUATORIAL_RADIUS, FCos[lat_rad]],
             FSqrt[OneMinusE2Sin2(sin_lat)]])

\* the outcome of a call: the exception raised ("none": a normal return)
\* and the value returned
Returned(v) == [exc |-> "none", val |-> v]
Raises(e) == [exc |-> e, val |-> <<>>]

\* RoundBoth with the two axes exchanged
RoundBothSwapped(rx, ry) ==
    IF rx.exc # "none" THEN Raises(rx.exc)
    ELSE IF ry.exc # "none" THEN Raises(ry.exc)
    ELSE Returned([x |-> ry.v, y |-> rx.v])

\* the return statement of latlng_to_minecraft: x is rounded before y
RoundBoth(rx, ry) ==
    IF rx.exc # "none" THEN Raises(rx.exc)
    ELSE IF ry.exc # "none" THEN Raises(ry.exc)
    ELSE Returned([x |-> rx.v, y |-> ry.v])

\* latlng_to_minecraft(latlng, base_point)
LatLngToMinecraft(latlng, base_point) ==
    Let(Radians[latlng.latitude], LAMBDA lat_rad :
    Let(Radians[base_point.latitude], LAMBDA base_lat_rad :
    Let(FSub[lat_rad, base_lat_rad], LAMBDA delta_lat_rad :
    Let(MeridionalArcLength(delta_lat_rad, base_lat_rad), LAMBDA lat_distance :
        IF IsExc(lat_distance) THEN Raises(lat_distance.k)
        ELSE
    Let(ParallelRadius(base_lat_rad), LAMBDA parallel_radius :
        IF IsExc(parallel_radius) THEN Raises(parallel_radius.k)
        ELSE
    Let(Radians[FSub[latlng.longitude, base_point.longitude]], LAMBDA delta_lon_rad :
    Let(FMul[parallel_radius, delta_lon_rad], LAMBDA lon_distance :
        RoundBoth(PyRound(lon_distance), PyRound(lat_distance)))))))))

\* LatCorrection with the distance measured from the equator, not from the base
LatCorrectionFromEquator(current_lat, meters, base_lat_rad) ==
    Let(Radians[current_lat], LAMBDA current_lat_rad :
    Let(MeridionalArcLength(current_lat_rad, base_lat_rad), LAMBDA calculated_distance :
    Let(FSub[meters, calculated_distance], LAMBDA error :
    Let(FDivInt[error, METERS_PER_DEGREE], LAMBDA lat_correction :
        FAdd[current_lat, lat_correction]))))

\* one pass of the loop body of _meters_to_latitude: the corrected estimate
LatCorrection(current_lat, meters, base_lat_rad) ==
    Let(Radians[current_lat], LAMBDA current_lat_rad :
    Let(FSub[current_lat_rad, base_lat_rad], LAMBDA delta_lat_rad :
    Let(MeridionalArcLength(delta_lat_rad, base_lat_rad), LAMBDA calculated_distance :
    Let(FSub[meters, calculated_distance], LAMBDA error :
    Let(FDivInt[error, METERS_PER_DEGREE], LAMBDA lat_correction :
        FAdd[current_lat, lat_correction])))))

\* the estimate after n more passes of the loop
LatSolve[current_lat \in Float, meters \in Float, base_lat_rad \in Float, n \in Nat] ==
    IF n = 0 THEN current_lat
    ELSE LatSolve[LatCorrection(current_lat, meters, base_lat_rad),
                  meters, base_lat_rad, n - 1]

\* MetersToLatitude with the base latitude handed to the loop in degrees
MetersToLatitudeDegrees(meters, base_lat) ==
    Let(FDivInt[meters, METERS_PER_DEGREE], LAMBDA initial_delta_lat :
    Let(FAdd[base_lat, initial_delta_lat], LAMBDA current_lat :
        LatSolve[current_lat, meters, base_lat, SOLVE_ITERATIONS]))

\* _meters_to_latitude(meters, base_lat)
MetersToLatitude(meters, base_lat) ==
    Let(Radians[base_lat], LAMBDA base_lat_rad :
    Let(FDivInt[meters, METERS_PER_DEGREE], LAMBDA initial_delta_lat :
    Let(FAdd[base_lat, initial_delta_lat], LAMBDA current_lat :
        LatSolve[current_lat, meters, base_lat_rad, SOLVE_ITERATIONS])))

\* MinecraftToLatLng with the longitude difference subtracted from the base
MinecraftToLatLngWestward(minecraft, base_point) ==
    Let(FInt[minecraft.y], LAMBDA lat_distance :
    Let(MetersToLatitude(lat_distance, base_point.latitude), LAMBDA new_lat :
        IF IsExc(new_lat) THEN Raises(new_lat.k)
        ELSE
    Let(Radians[new_lat], LAMBDA new_lat_rad :
    Let(ParallelRadius(new_lat_rad), LAMBDA parallel_radius :
    Let(FDiv[FInt[minecraft.x], parallel_radius], LAMBDA delta_lon_rad :
    Let(Degrees[delta_lon_rad], LAMBDA delta_lon :
    Let(FSub[base_point.longitude, delta_lon], LAMBDA new_lon :
        IF IsExc(new_lon) THEN Raises(new_lon.k)
        ELSE Returned([latitude |-> new_lat, longitude |-> new_lon]))))))))

\* MinecraftToLatLng with the parallel radius taken at the base latitude,
\* as latlng_to_minecraft takes it
MinecraftToLatLngBaseRadius(minecraft, base_point) ==
    Let(FInt[minecraft.y], LAMBDA lat_distance :
    Let(MetersToLatitude(lat_distance, base_point.latitude), LAMBDA new_lat :
        IF IsExc(new_lat) THEN Raises(new_lat.k)
        ELSE
    Let(ParallelRadius(Radians[base_point.latitude]), LAMBDA parallel_radius :
    Let(FDiv[FInt[minecraft.x], parallel_radius], LAMBDA delta_lon_rad :
    Let(FAdd[base_point.longitude, Degrees[delta_lon_rad]], LAMBDA new_lon :
        IF IsExc(new_lon) THEN Raises(new_lon.k)
        ELSE Returned([latitude |-> new_lat, longitude |-> new_lon]))))))

\* minecraft_to_latlng(minecraft, base_point)
MinecraftToLatLng(minecraft, base_point) ==
    Let(FInt[minecraft.y], LAMBDA lat_distance :
    Let(MetersToLatitude(lat_distance, base_point.latitude), LAMBDA new_lat :
        IF IsExc(new_lat) THEN Raises(new_lat.k)
        ELSE
    Let(Radians[new_lat], LAMBDA new_lat_rad :
    Let(ParallelRadius(new_lat_rad), LAMBDA parallel_radius :
    Let(FDiv[FInt[minecraft.x], parallel_radius], LAMBDA delta_lon_rad :
    Let(Degrees[delta_lon_rad], LAMBDA delta_lon :
    Let(FAdd[base_point.longitude, delta_lon], LAMBDA new_lon :
        IF IsExc(new_lon) THEN Raises(new_lon.k)
        ELSE Returned([latitude |-> new_lat, longitude |-> new_lon]))))))))

(***************************************************************************)
(* consts.py: BASE_POINT_MAP                                               *)
(***************************************************************************)
BASE_POINT_MAP ==
    [minecraft |-> [x |-> -559, y |-> -395],
     latlng    |-> [latitude  |-> FDec(FALSE, 36, 1387, 5500, 0, 0),
                    longitude |-> FDec(FALSE, 139, 3889, 800, 0, 0)]]

(***************************************************************************)
(* The inputs.  A conversion is called with one of the base points below   *)
(* and with a point of a grid around it; GridSteps, OffsetStep and         *)
(* MaxOffset bound the grid.                                               *)
(***************************************************************************)
GridSteps == 3
OffsetStep == 750
MaxOffset == 100000

Bases ==
    { BASE_POINT_MAP.latlng,
      [latitude |-> FInt[0], longitude |-> FInt[0]],
      [latitude  |-> FDec(TRUE, 60, 5000, 0, 0, 0),
       longitude |-> FDec(TRUE, 70, 2500, 0, 0, 0)] }

AxisIndex == (-(GridSteps + 1))..(GridSteps + 1)
GridPoints == AxisIndex \X AxisIndex

\* metres along one axis at grid index i: multiples of OffsetStep, and
\* +-MaxOffset at the rim of the grid
OffsetAxis(i) ==
    IF i > GridSteps THEN MaxOffset
    ELSE IF i < -GridSteps THEN -MaxOffset
    ELSE i * OffsetStep

OffsetAt(p) == [x |-> OffsetAxis(p[1]), y |-> OffsetAxis(p[2])]

\* degrees along one axis at grid index i: multiples of 0.009 degrees (the
\* step of the repository's tests), and +-20 degrees at the rim of the grid
DegreeStep == FDec(FALSE, 0, 90, 0, 0, 0)
DegreeAxis(i) ==
    IF i > GridSteps THEN FInt[20]
    ELSE IF i < -GridSteps THEN FInt[-20]
    ELSE FMul[FInt[i], DegreeStep]

\* the point p[1] grid steps east and p[2] grid steps north of b
TargetAt(b, p) ==
    [latitude  |-> FAdd[b.latitude, DegreeAxis(p[2])],
     longitude |-> FAdd[b.longitude, DegreeAxis(p[1])]]

\* a caller moves from one grid point to a neighbour between calls
Moves == {<<1, 0>>, <<-1, 0>>, <<0, 1>>, <<0, -1>>}
NonFinite == {NaN, Inf(FALSE), Inf(TRUE)}

(***************************************************************************)
(* State.  A session of calls of the converter: the base point, the grid   *)
(* point of the latest call, the function called (fn), its arguments       *)
(* (arg), its outcome (ret) and, for a round trip, the outcome of          *)
(* latlng_to_minecraft on the result of minecraft_to_latlng (back).        *)
(***************************************************************************)
VARIABLES base, point, fn, arg, ret, back

convVars == <<base, point, fn, arg, ret, back>>

(***************************************************************************)
(* State of the command-line layer.  A run of handle_csv: the input file   *)
(* and the column names (csv_in), the output file before the run           *)
(* (csv_out0) and now (csv_out), the position of the run (csv_pc), the     *)
(* exception that ended it (csv_exc) and the number of the input row the   *)
(* loop is at (csv_idx).  A run of main in single-value mode: the package,   *)
(* the mode and the values given (var_mode, var_values), the functions     *)
(* of the converter called (var_calls), what was written to standard       *)
(* output (stdout) and how main ended (main_ret).                          *)
(***************************************************************************)
VARIABLES csv_in, csv_out0, csv_out, csv_pc, csv_exc, csv_idx
VARIABLES var_mode, var_values, var_calls, stdout, main_ret

(***************************************************************************)
(* State of a call of _meters_to_latitude taken step by step: its          *)
(* arguments (solve_arg), where it stands (solve_pc), the estimate         *)
(* current_lat (solve_lat), the number of passes of the loop completed     *)
(* (solve_iter) and the value returned (solve_ret).                        *)
(***************************************************************************)
VARIABLES solve_arg, solve_pc, solve_lat, solve_iter, solve_ret

csvVars == <<csv_in, csv_out0, csv_out, csv_pc, csv_exc, csv_idx>>
varVars == <<var_mode, var_values, var_calls, stdout, main_ret>>
solveVars == <<solve_arg, solve_pc, solve_lat, solve_iter, solve_ret>>
vars == <<convVars, csvVars, varVars, solveVars>>

\* the output path names no file
NO_FILE == [exists |-> FALSE, header |-> <<>>, rows |-> <<>>]

\* no run of handle_csv has begun; the output file is o
CsvIdle(o) ==
    /\ csv_in = [header |-> <<>>, rows |-> <<>>, lat_col |-> "", lng_col |-> ""]
    /\ csv_out0 = o
    /\ csv_out = o
    /\ csv_pc = "idle"
    /\ csv_exc = "none"
    /\ csv_idx = 0

\* main has not run
VarIdle ==
    /\ var_mode = [pkg |-> "", mode |-> ""]
    /\ var_values = <<>>
    /\ var_calls = <<>>
    /\ stdout = <<>>
    /\ main_ret = [exc |-> "none", code |-> -1]

\* _meters_to_latitude has not been called
SolveIdle ==
    /\ solve_arg = <<>>
    /\ solve_pc = "idle"
    /\ solve_lat = NaN
    /\ solve_iter = 0
    /\ solve_ret = NaN

\* no call of the converter has been made; the base point is b
ConverterIdle(b) ==
    /\ base = b
    /\ point = <<0, 0>>
    /\ fn = "none"
    /\ arg = <<>>
    /\ ret = <<>>
    /\ back = <<>>
    /\ SolveIdle

InitConverter ==
    /\ \E b \in Bases : ConverterIdle(b)
    /\ CsvIdle(NO_FILE)
    /\ VarIdle

\* the first call is made at the grid's centre, a later one at a neighbour
\* of the point of the call before
NextPoint(d) ==
    IF fn = "none" THEN <<0, 0>> ELSE <<point[1] + d[1], point[2] + d[2]>>

\* a call latlng_to_minecraft(target, base)
Forward(d) ==
    LET p == NextPoint(d)
        a == [target |-> TargetAt(base, p), base |-> base]
    IN  /\ p \in GridPoints
        /\ point' = p
        /\ fn' = "latlng_to_minecraft"
        /\ arg' = a
        /\ ret' = LatLngToMinecraft(a.target, a.base)
        /\ UNCHANGED <<base, back, csvVars, varVars, solveVars>>

\* a first call latlng_to_minecraft with a NaN or an infinity as the latitude
\* or the longitude of the target or of the base
ForwardNonFinite(v, field, who) ==
    LET a == IF who = "target"
             THEN [target |-> [base EXCEPT ![field] = v], base |-> base]
             ELSE [target |-> base, base |-> [base EXCEPT ![field] = v]]
    IN  /\ fn = "none"
        /\ fn' = "latlng_to_minecraft"
        /\ arg' = a
        /\ ret' = LatLngToMinecraft(a.target, a.base)
        /\ UNCHANGED <<base, point, back, csvVars, varVars, solveVars>>

\* a call minecraft_to_latlng(minecraft, base)
Inverse(d) ==
    LET p == NextPoint(d)
        a == [minecraft |-> OffsetAt(p), base |-> base]
    IN  /\ p \in GridPoints
        /\ point' = p
        /\ fn' = "minecraft_to_latlng"
        /\ arg' = a
        /\ ret' = MinecraftToLatLng(a.minecraft, a.base)
        /\ UNCHANGED <<base, back, csvVars, varVars, solveVars>>

\* minecraft_to_latlng, then latlng_to_minecraft on its result against the
\* same base (test_round_trip_conversion)
RoundTrip(d) ==
    LET p == NextPoint(d)
        a == [minecraft |-> OffsetAt(p), base |-> base]
        latlng == MinecraftToLatLng(a.minecraft, a.base)
    IN  /\ p \in GridPoints
        /\ point' = p
        /\ fn' = "round_trip"
        /\ arg' = a
        /\ ret' = latlng
        /\ back' = IF latlng.exc = "none" THEN LatLngToMinecraft(latlng.val, a.base)
                   ELSE Raises(latlng.exc)
        /\ UNCHANGED <<base, csvVars, varVars, solveVars>>

NextForward ==
    \/ \E d \in Moves : Forward(d)
    \/ \E v \in NonFinite, field \in {"latitude", "longitude"},
          who \in {"target", "base"} : ForwardNonFinite(v, field, who)

NextInverse == \E d \in Moves : Inverse(d)

NextRoundTrip == \E d \in Moves : RoundTrip(d)

SpecForward == InitConverter /\ [][NextForward]_vars
SpecInverse == InitConverter /\ [][NextInverse]_vars
SpecRoundTrip == InitConverter /\ [][NextRoundTrip]_vars

(***************************************************************************)
(* _meters_to_latitude, statement by statement.                            *)
(***************************************************************************)
\* lines 134-138: the call, up to the seed of current_lat
SolveCall(b, i) ==
    /\ solve_pc = "idle"
    /\ solve_arg' = [meters |-> FInt[OffsetAxis(i)], base_lat |-> b.latitude]
    /\ solve_lat' = FAdd[b.latitude, FDivInt[FInt[OffsetAxis(i)], METERS_PER_DEGREE]]
    /\ solve_iter' = 0
    /\ solve_pc' = "loop"
    /\ UNCHANGED <<solve_ret, convVars, csvVars, varVars>>

\* lines 141-149: one pass of "for _ in range(3)"; an exception of the
\* body leaves the function
SolveStep ==
    /\ solve_pc = "loop"
    /\ solve_iter < SOLVE_ITERATIONS
    /\ LET corrected == LatCorrection(solve_lat, solve_arg.meters,
                                      Radians[solve_arg.base_lat])
       IN  /\ solve_lat' = corrected
           /\ solve_pc' = IF IsExc(corrected) THEN "raised" ELSE "loop"
    /\ solve_iter' = solve_iter + 1
    /\ UNCHANGED <<solve_arg, solve_ret, convVars, csvVars, varVars>>

\* SolveReturn leaving the loop as soon as the estimate reproduces meters
SolveReturnConverged ==
    /\ solve_pc = "loop"
    /\ \/ solve_iter = SOLVE_ITERATIONS
       \/ LatCorrection(solve_lat, solve_arg.meters, Radians[solve_arg.base_lat])
              = solve_lat
    /\ solve_ret' = solve_lat
    /\ solve_pc' = "returned"
    /\ UNCHANGED <<solve_arg, solve_lat, solve_iter, convVars, csvVars, varVars>>

\* line 151: range(3) is exhausted, return current_lat
SolveReturn ==
    /\ solve_pc = "loop"
    /\ solve_iter = SOLVE_ITERATIONS
    /\ solve_ret' = solve_lat
    /\ solve_pc' = "returned"
    /\ UNCHANGED <<solve_arg, solve_lat, solve_iter, convVars, csvVars, varVars>>

InitSolve ==
    /\ ConverterIdle(BASE_POINT_MAP.latlng)
    /\ CsvIdle(NO_FILE)
    /\ VarIdle

NextSolve ==
    \/ \E b \in Bases, i \in AxisIndex : SolveCall(b, i)
    \/ SolveStep
    \/ SolveReturn

SpecSolve == InitSolve /\ [][NextSolve]_vars

\* the interpreter runs the next statement of a call that has begun
FairSolve == SpecSolve /\ WF_vars(SolveStep) /\ WF_vars(SolveReturn)

(***************************************************************************)
(* __main__.py: float(s) and int(s) of the strings that occur as inline    *)
(* values and as CSV cells.  A value a Python name can hold is             *)
(* [none, s]: None, or the string s.                                       *)
(***************************************************************************)
FLOAT_LITERALS ==
    ("36.147755" :> FDec(FALSE, 36, 1477, 5500, 0, 0))
        @@ ("139.397908" :> FDec(FALSE, 139, 3979, 800, 0, 0))
        @@ ("36.138755" :> FDec(FALSE, 36, 1387, 5500, 0, 0))
        @@ ("139.388908" :> FDec(FALSE, 139, 3889, 800, 0, 0))
        @@ ("251" :> FInt[251])
        @@ ("604" :> FInt[604])
        @@ ("-559" :> FInt[-559])
        @@ ("-395" :> FInt[-395])
INT_LITERALS ==
    ("251" :> 251) @@ ("604" :> 604) @@ ("-559" :> -559) @@ ("-395" :> -395)

Str(s) == [none |-> FALSE, s |-> s]
None == [none |-> TRUE, s |-> ""]

\* float(v): TypeError for None, ValueError for a string that is no number
PyFloat(v) ==
    IF v.none THEN [exc |-> "TypeError", v |-> NaN]
    ELSE IF v.s \in DOMAIN FLOAT_LITERALS THEN [exc |-> "none", v |-> FLOAT_LITERALS[v.s]]
    ELSE [exc |-> "ValueError", v |-> NaN]

\* int(v): TypeError for None, ValueError for a string that is no integer
PyInt(v) ==
    IF v.none THEN [exc |-> "TypeError", v |-> 0]
    ELSE IF v.s \in DOMAIN INT_LITERALS THEN [exc |-> "none", v |-> INT_LITERALS[v.s]]
    ELSE [exc |-> "ValueError", v |-> 0]

(***************************************************************************)
(* kakiko2minecraft: consts.py and converter.py.  The package converts as  *)
(* latlng2minecraft does and names the north-south component z.            *)
(***************************************************************************)
KAKIKO_BASE_POINT_MAP ==
    [minecraft |-> [x |-> -559, z |-> -395],
     latlng    |-> [latitude  |-> FDec(FALSE, 36, 1387, 5500, 0, 0),
                    longitude |-> FDec(FALSE, 139, 3889, 800, 0, 0)]]

\* kakiko2minecraft.converter.latlng_to_minecraft
KakikoLatLngToMinecraft(latlng, base_point) ==
    Let(LatLngToMinecraft(latlng, base_point), LAMBDA r :
        IF r.exc # "none" THEN r
        ELSE Returned([x |-> r.val.x, z |-> r.val.y]))

\* kakiko2minecraft.converter.minecraft_to_latlng
KakikoMinecraftToLatLng(minecraft, base_point) ==
    MinecraftToLatLng([x |-> minecraft.x, y |-> minecraft.z], base_point)

(***************************************************************************)
(* latlng2minecraft/__main__.py: handle_var and main in single-value mode  *)
(***************************************************************************)
PAIR_VALUE_COUNT == 2

\* the outcome of handle_var: the exception raised, the value returned and
\* the conversion functions called
VarOutcome(e, out, called) == [exc |-> e, out |-> out, calls |-> called]

\* HandleLat2Mc returning the relative result of the converter
HandleLat2McRelative(lat, lon) ==
    IF lat.exc # "none" THEN VarOutcome(lat.exc, <<>>, <<>>)
    ELSE IF lon.exc # "none" THEN VarOutcome(lon.exc, <<>>, <<>>)
    ELSE Let(LatLngToMinecraft([latitude |-> lat.v, longitude |-> lon.v],
                               BASE_POINT_MAP.latlng), LAMBDA rel :
         IF rel.exc # "none" THEN VarOutcome(rel.exc, <<>>, <<"latlng_to_minecraft">>)
         ELSE VarOutcome("none", rel.val, <<"latlng_to_minecraft">>))

\* the lat2mc branch of handle_var once both values are parsed
HandleLat2Mc(lat, lon) ==
    IF lat.exc # "none" THEN VarOutcome(lat.exc, <<>>, <<>>)
    ELSE IF lon.exc # "none" THEN VarOutcome(lon.exc, <<>>, <<>>)
    ELSE Let(LatLngToMinecraft([latitude |-> lat.v, longitude |-> lon.v],
                               BASE_POINT_MAP.latlng), LAMBDA rel :
         IF rel.exc # "none" THEN VarOutcome(rel.exc, <<>>, <<"latlng_to_minecraft">>)
         ELSE VarOutcome("none",
                         [x |-> BASE_POINT_MAP.minecraft.x + rel.val.x,
                          y |-> BASE_POINT_MAP.minecraft.y + rel.val.y],
                         <<"latlng_to_minecraft">>))

\* the mc2lat branch of handle_var once both values are parsed
HandleMc2Lat(x, y) ==
    IF x.exc # "none" THEN VarOutcome(x.exc, <<>>, <<>>)
    ELSE IF y.exc # "none" THEN VarOutcome(y.exc, <<>>, <<>>)
    ELSE Let(MinecraftToLatLng([x |-> x.v - BASE_POINT_MAP.minecraft.x,
                                y |-> y.v - BASE_POINT_MAP.minecraft.y],
                               BASE_POINT_MAP.latlng), LAMBDA result :
         IF result.exc # "none" THEN VarOutcome(result.exc, <<>>, <<"minecraft_to_latlng">>)
         ELSE VarOutcome("none", result.val, <<"minecraft_to_latlng">>))

\* handle_var with the count of the values checked from below only
HandleVarAtLeastTwo(mode, values) ==
    IF Len(values) < PAIR_VALUE_COUNT THEN VarOutcome("SystemExit", <<>>, <<>>)
    ELSE IF mode = "lat2mc"
         THEN HandleLat2Mc(PyFloat(Str(values[1])), PyFloat(Str(values[2])))
         ELSE HandleMc2Lat(PyInt(Str(values[1])), PyInt(Str(values[2])))

\* handle_var(mode, values)
HandleVar(mode, values) ==
    IF Len(values) # PAIR_VALUE_COUNT THEN VarOutcome("SystemExit", <<>>, <<>>)
    ELSE IF mode = "lat2mc"
         THEN HandleLat2Mc(PyFloat(Str(values[1])), PyFloat(Str(values[2])))
         ELSE HandleMc2Lat(PyInt(Str(values[1])), PyInt(Str(values[2])))

\* kakiko2minecraft/__main__.py, handle_var: the lat2mc branch once both
\* values are parsed
KakikoHandleLat2Mc(lat, lon) ==
    IF lat.exc # "none" THEN VarOutcome(lat.exc, <<>>, <<>>)
    ELSE IF lon.exc # "none" THEN VarOutcome(lon.exc, <<>>, <<>>)
    ELSE Let(KakikoLatLngToMinecraft([latitude |-> lat.v, longitude |-> lon.v],
                                     KAKIKO_BASE_POINT_MAP.latlng), LAMBDA rel :
         IF rel.exc # "none" THEN VarOutcome(rel.exc, <<>>, <<"latlng_to_minecraft">>)
         ELSE VarOutcome("none",
                         [x |-> KAKIKO_BASE_POINT_MAP.minecraft.x + rel.val.x,
                          z |-> KAKIKO_BASE_POINT_MAP.minecraft.z + rel.val.z],
                         <<"latlng_to_minecraft">>))

\* kakiko2minecraft/__main__.py, handle_var: the mc2lat branch once both
\* values are parsed
KakikoHandleMc2Lat(x, z) ==
    IF x.exc # "none" THEN VarOutcome(x.exc, <<>>, <<>>)
    ELSE IF z.exc # "none" THEN VarOutcome(z.exc, <<>>, <<>>)
    ELSE Let(KakikoMinecraftToLatLng([x |-> x.v - KAKIKO_BASE_POINT_MAP.minecraft.x,
                                      z |-> z.v - KAKIKO_BASE_POINT_MAP.minecraft.z],
                                     KAKIKO_BASE_POINT_MAP.latlng), LAMBDA result :
         IF result.exc # "none" THEN VarOutcome(result.exc, <<>>, <<"minecraft_to_latlng">>)
         ELSE VarOutcome("none", result.val, <<"minecraft_to_latlng">>))

\* kakiko2minecraft/__main__.py, handle_var(mode, values)
KakikoHandleVar(mode, values) ==
    IF Len(values) # PAIR_VALUE_COUNT THEN VarOutcome("SystemExit", <<>>, <<>>)
    ELSE IF mode = "lat2mc"
         THEN KakikoHandleLat2Mc(PyFloat(Str(values[1])), PyFloat(Str(values[2])))
         ELSE KakikoHandleMc2Lat(PyInt(Str(values[1])), PyInt(Str(values[2])))

\* the inline values a run is given: up to MaxValues of VarTokens
MaxValues == 3
VarTokens ==
    {"36.147755", "139.397908", "36.138755", "139.388908",
     "251", "604", "-559", "-395", "abc"}
VarModes == {"lat2mc", "mc2lat"}
ValueLists == UNION {[1..n -> VarTokens] : n \in 0..MaxValues}

VarPackages == {"latlng2minecraft", "kakiko2minecraft"}

\* main(["var", mode] + values) of package pkg: _parse_args exits with
\* status 2 when no value is given (nargs="+"); an exception of handle_var
\* leaves main before anything is written.  A process runs main once.
Main(pkg, mode, values) ==
    /\ var_mode.mode = ""
    /\ var_mode' = [pkg |-> pkg, mode |-> mode]
    /\ var_values' = values
    /\ IF Len(values) = 0
       THEN /\ var_calls' = <<>>
            /\ stdout' = <<>>
            /\ main_ret' = [exc |-> "SystemExit", code |-> 2]
       ELSE LET out == IF pkg = "latlng2minecraft" THEN HandleVar(mode, values)
                       ELSE KakikoHandleVar(mode, values)
            IN  /\ var_calls' = out.calls
                /\ stdout' = IF out.exc = "none" THEN <<out.out>> ELSE <<>>
                /\ main_ret' = IF out.exc = "none" THEN [exc |-> "none", code |-> 0]
                               ELSE [exc |-> out.exc, code |-> 1]
    /\ UNCHANGED <<convVars, csvVars, solveVars>>

NextVar ==
    /\ var_mode.mode = ""
    /\ \E pkg \in VarPackages, mode \in VarModes, values \in ValueLists :
          Main(pkg, mode, values)

InitVar ==
    /\ ConverterIdle(BASE_POINT_MAP.latlng)
    /\ CsvIdle(NO_FILE)
    /\ VarIdle

SpecVar == InitVar /\ [][NextVar]_vars

(***************************************************************************)
(* kakiko2minecraft/__main__.py: handle_csv.  A CSV file is its header (a  *)
(* sequence of column names) and its rows (sequences of cells); a row of   *)
(* csv.DictReader is [vals, rest]: the value of each column (None where    *)
(* the line has no cell for it) and the cells beyond the header, which     *)
(* DictReader files under the key None.                                    *)
(***************************************************************************)
Range(q) == {q[i] : i \in 1..Len(q)}
IndexOf(q, e) == CHOOSE i \in 1..Len(q) : q[i] = e

\* a row of csv.DictReader(f_in) for the cells of one line
DictRow(fieldnames, cells) ==
    [vals |-> [f \in Range(fieldnames) |->
                  IF IndexOf(fieldnames, f) <= Len(cells)
                  THEN Str(cells[IndexOf(fieldnames, f)]) ELSE None],
     rest |-> IF Len(cells) > Len(fieldnames)
              THEN SubSeq(cells, Len(fieldnames) + 1, Len(cells)) ELSE <<>>]

\* out_fieldnames: the header and the derived columns it does not have yet
AppendMissing(q, name) == IF name \in Range(q) THEN q ELSE Append(q, name)
\* OutFieldnames with both derived columns appended whatever the header
OutFieldnamesAppendBoth(fieldnames) ==
    Append(Append(fieldnames, "minecraft_x"), "minecraft_z")

OutFieldnames(fieldnames) ==
    AppendMissing(AppendMissing(fieldnames, "minecraft_x"), "minecraft_z")

\* row.get(f, ""), written as csv.writer writes it: None as the empty string
WrittenCell(row, f, mx, mz) ==
    IF f = "minecraft_x" THEN mx
    ELSE IF f = "minecraft_z" THEN mz
    ELSE IF row.vals[f].none THEN "" ELSE row.vals[f].s

\* writer.writerow(row) after row["minecraft_x"] = mx, row["minecraft_z"] = mz:
\* ValueError when the row has a key that is no output column (the key None)
WriteRow(out, row, mx, mz) ==
    IF Len(row.rest) > 0 THEN [exc |-> "ValueError", out |-> out]
    ELSE [exc |-> "none",
          out |-> [out EXCEPT !.rows =
                      Append(@, [i \in 1..Len(out.header) |->
                                    WrittenCell(row, out.header[i], mx, mz)])]]

\* row[col]: KeyError when the row has no such key
Lookup(row, col) ==
    IF col \in DOMAIN row.vals THEN [exc |-> "none", v |-> row.vals[col]]
    ELSE [exc |-> "KeyError", v |-> None]

\* float(row[col])
FloatOf(row, col) ==
    IF Lookup(row, col).exc # "none" THEN [exc |-> "KeyError", v |-> NaN]
    ELSE PyFloat(Lookup(row, col).v)

\* the body of the loop once lat and lng are parsed
ConvertRow(out, row, lat, lng) ==
    Let(KakikoLatLngToMinecraft([latitude |-> lat, longitude |-> lng],
                                KAKIKO_BASE_POINT_MAP.latlng), LAMBDA rel :
        IF rel.exc # "none" THEN [exc |-> rel.exc, out |-> out]
        ELSE WriteRow(out, row,
                      ToString(KAKIKO_BASE_POINT_MAP.minecraft.x + rel.val.x),
                      ToString(KAKIKO_BASE_POINT_MAP.minecraft.z + rel.val.z)))

\* the exceptions the loop body catches
CAUGHT == {"KeyError", "ValueError"}

\* one pass of the loop of handle_csv: the exception it raises and the
\* output file after it
ProcessRow(out, row, lat_col, lng_col) ==
    Let(FloatOf(row, lat_col), LAMBDA lat :
        IF lat.exc \in CAUGHT THEN WriteRow(out, row, "", "")
        ELSE IF lat.exc # "none" THEN [exc |-> lat.exc, out |-> out]
        ELSE
    Let(FloatOf(row, lng_col), LAMBDA lng :
        IF lng.exc \in CAUGHT THEN WriteRow(out, row, "", "")
        ELSE IF lng.exc # "none" THEN [exc |-> lng.exc, out |-> out]
        ELSE ConvertRow(out, row, lat.v, lng.v)))

\* OpenOutput with the output file opened before the header is checked
OpenOutputFirst(out, fieldnames, lat_col, lng_col) ==
    IF lat_col \notin Range(fieldnames) \/ lng_col \notin Range(fieldnames)
    THEN [exc |-> "SystemExit", out |-> [exists |-> TRUE, header |-> <<>>, rows |-> <<>>]]
    ELSE [exc |-> "none",
          out |-> [exists |-> TRUE, header |-> OutFieldnames(fieldnames), rows |-> <<>>]]

\* handle_csv up to writer.writeheader(): SystemExit when a required column
\* is missing, else the output file is opened for writing and holds the header
OpenOutput(out, fieldnames, lat_col, lng_col) ==
    IF lat_col \notin Range(fieldnames) \/ lng_col \notin Range(fieldnames)
    THEN [exc |-> "SystemExit", out |-> out]
    ELSE [exc |-> "none",
          out |-> [exists |-> TRUE, header |-> OutFieldnames(fieldnames), rows |-> <<>>]]

\* the input files: one of Headers and up to MaxRows lines of RowKinds
MaxRows == 2
Headers ==
    { <<"name", "lat", "lng">>, <<"lat", "lng", "minecraft_x">>,
      <<"minecraft_x", "lat", "lng">>,
      <<"name", "lat", "lon">>, <<"name", "lng">>, <<>> }
RowKinds ==
    { <<"a", "36.147755", "139.397908">>, <<"a", "abc", "139.397908">>,
      <<"a", "36.147755", "">>, <<"a", "36.147755">>,
      <<"a", "abc", "139.397908", "more">>, <<>> }
RowLists == UNION {[1..n -> RowKinds] : n \in 0..MaxRows}
LatCols == {"lat"}
LngCols == {"lng", "lon"}
OLD_FILE == [exists |-> TRUE, header |-> <<"old">>, rows |-> <<<<"kept">>>>]

\* handle_csv(input_path, output_path, lat_col, lng_col), lines 77-96: the
\* header is read and checked, the output file opened and its header written
HandleCsvOpen(header, rows, lat_col, lng_col) ==
    LET opened == OpenOutput(csv_out, header, lat_col, lng_col)
    IN  /\ csv_pc = "idle"
        /\ csv_in' = [header |-> header, rows |-> rows,
                      lat_col |-> lat_col, lng_col |-> lng_col]
        /\ csv_out' = opened.out
        /\ csv_exc' = opened.exc
        /\ csv_pc' = IF opened.exc = "none" THEN "rows" ELSE "aborted"
        /\ csv_idx' = 1
        /\ UNCHANGED <<csv_out0, convVars, varVars, solveVars>>

\* one pass of "for row in reader": DictReader skips a line without cells
HandleCsvRow ==
    /\ csv_pc = "rows"
    /\ csv_idx <= Len(csv_in.rows)
    /\ IF Len(csv_in.rows[csv_idx]) = 0
       THEN /\ csv_idx' = csv_idx + 1
            /\ UNCHANGED <<csv_out, csv_exc, csv_pc>>
       ELSE LET done == ProcessRow(csv_out, DictRow(csv_in.header, csv_in.rows[csv_idx]),
                                   csv_in.lat_col, csv_in.lng_col)
            IN  /\ csv_out' = done.out
                /\ csv_exc' = done.exc
                /\ csv_pc' = IF done.exc = "none" THEN "rows" ELSE "aborted"
                /\ csv_idx' = IF done.exc = "none" THEN csv_idx + 1 ELSE csv_idx
    /\ UNCHANGED <<csv_in, csv_out0, convVars, varVars, solveVars>>

\* the reader is exhausted: both files are closed and handle_csv returns
HandleCsvReturn ==
    /\ csv_pc = "rows"
    /\ csv_idx > Len(csv_in.rows)
    /\ csv_pc' = "done"
    /\ UNCHANGED <<csv_in, csv_out0, csv_out, csv_exc, csv_idx, convVars, varVars, solveVars>>

InitCsv ==
    /\ ConverterIdle(BASE_POINT_MAP.latlng)
    /\ \E o \in {NO_FILE, OLD_FILE} : CsvIdle(o)
    /\ VarIdle

NextCsv ==
    \/ /\ csv_pc = "idle"
       /\ \E header \in Headers, rows \in RowLists, lat_col \in LatCols, lng_col \in LngCols :
             HandleCsvOpen(header, rows, lat_col, lng_col)
    \/ HandleCsvRow
    \/ HandleCsvReturn

SpecCsv == InitCsv /\ [][NextCsv]_vars

(***************************************************************************)
(* Properties of the converter.                                            *)
(***************************************************************************)
FORWARD == "latlng_to_minecraft"
INVERSE == "minecraft_to_latlng"

\* every latitude and longitude passed to latlng_to_minecraft is finite
FiniteArgs ==
    /\ IsFin(arg.target.latitude) /\ IsFin(arg.target.longitude)
    /\ IsFin(arg.base.latitude) /\ IsFin(arg.base.longitude)

Abs(n) == IF n < 0 THEN -n ELSE n

\* |a - b| < tol
Within(a, b, tol) == FLess[FAbs[FSub[a, b]], tol]

\* 1e-6 degrees
MICRO_DEGREE == FDec(FALSE, 0, 0, 100, 0, 0)

\* the grid points that are not on the rim: offsets of at most
\* GridSteps * OffsetStep metres on each axis
Inner(p) == p[1] \in -GridSteps..GridSteps /\ p[2] \in -GridSteps..GridSteps

\* C1: latlng_to_minecraft(p, p), the target being the base, returns
\* exactly x = 0 and y = 0, for every finite point p
C1_Identity ==
    (fn = FORWARD /\ FiniteArgs /\ arg.target = arg.base)
        => (ret.exc = "none" /\ ret.val.x = 0 /\ ret.val.y = 0)

C1_Witness ==
    /\ fn = FORWARD
    /\ arg.target = arg.base
    /\ arg.base = BASE_POINT_MAP.latlng
    /\ ret.exc = "none"

\* C2: for an offset of a few kilometres, minecraft_to_latlng followed by
\* latlng_to_minecraft against the same base returns a point whose x and y
\* each differ from the offset by less than 1
C2_RoundTrip ==
    (fn = "round_trip" /\ Inner(point))
        => /\ ret.exc = "none"
           /\ back.exc = "none"
           /\ Abs(back.val.x - arg.minecraft.x) < 1
           /\ Abs(back.val.y - arg.minecraft.y) < 1

C7_Origin ==
    (fn = INVERSE /\ arg.minecraft.x = 0 /\ arg.minecraft.y = 0)
        => /\ ret.exc = "none"
           /\ Within(ret.val.latitude, arg.base.latitude, MICRO_DEGREE)
           /\ Within(ret.val.longitude, arg.base.longitude, MICRO_DEGREE)

C7_Witness ==
    /\ fn = INVERSE
    /\ arg.minecraft.x = 0 /\ arg.minecraft.y = 0
    /\ arg.base.latitude.neg
    /\ ret.exc = "none"
    /\ ret.val.latitude = arg.base.latitude

\* C8: in latlng_to_minecraft a target of the base's longitude yields
\* x = 0 exactly, and a target of the base's latitude yields y = 0 exactly
C8_AxisMovement ==
    (fn = FORWARD /\ FiniteArgs)
        => /\ arg.target.longitude = arg.base.longitude
                => (ret.exc = "none" /\ ret.val.x = 0)
           /\ arg.target.latitude = arg.base.latitude
                => (ret.exc = "none" /\ ret.val.y = 0)

C8_Witness ==
    /\ fn = FORWARD
    /\ FiniteArgs
    /\ arg.target.longitude = arg.base.longitude
    /\ arg.target.latitude # arg.base.latitude
    /\ ret.exc = "none"
    /\ ret.val.x = 0
    /\ ret.val.y > 0

\* two successive calls of minecraft_to_latlng: of two offsets with the same
\* x the one with the larger y yields the larger latitude, of two offsets
\* with the same y the one with the larger x yields the larger longitude
MonotoneStep ==
    (fn = INVERSE /\ fn' = INVERSE /\ ret.exc = "none" /\ ret'.exc = "none")
        => /\ (arg'.minecraft.x = arg.minecraft.x /\ arg'.minecraft.y > arg.minecraft.y)
                => FLess[ret.val.latitude, ret'.val.latitude]
           /\ (arg'.minecraft.x = arg.minecraft.x /\ arg'.minecraft.y < arg.minecraft.y)
                => FLess[ret'.val.latitude, ret.val.latitude]
           /\ (arg'.minecraft.y = arg.minecraft.y /\ arg'.minecraft.x > arg.minecraft.x)
                => FLess[ret.val.longitude, ret'.val.longitude]
           /\ (arg'.minecraft.y = arg.minecraft.y /\ arg'.minecraft.x < arg.minecraft.x)
                => FLess[ret'.val.longitude, ret.val.longitude]

\* a south-west offset yields a latitude and a longitude below the base's
SouthWestStep ==
    (fn' = INVERSE /\ arg'.minecraft.x < 0 /\ arg'.minecraft.y < 0)
        => /\ ret'.exc = "none"
           /\ FLess[ret'.val.latitude, arg'.base.latitude]
           /\ FLess[ret'.val.longitude, arg'.base.longitude]

\* C9: minecraft_to_latlng is strictly monotone in each axis (latitude in
\* y, longitude in x), and a south-west offset yields a latitude and a
\* longitude both strictly below the base's
C9_Monotone == [][MonotoneStep /\ SouthWestStep]_vars

C9_Witness ==
    /\ fn = INVERSE
    /\ arg.minecraft.x < 0 /\ arg.minecraft.y < 0
    /\ ret.exc = "none"
    /\ FLess[ret.val.latitude, arg.base.latitude]
    /\ FLess[ret.val.longitude, arg.base.longitude]

\* C10: for an offset with each component between -MaxOffset and MaxOffset,
\* minecraft_to_latlng raises nothing and returns a finite latitude and a
\* finite longitude
C10_Finite ==
    fn = INVERSE
        => /\ ret.exc = "none"
           /\ IsFin(ret.val.latitude)
           /\ IsFin(ret.val.longitude)

C10_Witness ==
    /\ fn = INVERSE
    /\ arg.minecraft.x = -MaxOffset /\ arg.minecraft.y = MaxOffset
    /\ ret.exc = "none"
    /\ IsFin(ret.val.latitude) /\ IsFin(ret.val.longitude)

(***************************************************************************)
(* Properties of the command-line layer.                                   *)
(***************************************************************************)
\* the cell of column col in the line cells is missing or is no number
BadCell(header, cells, col) ==
    \/ IndexOf(header, col) > Len(cells)
    \/ cells[IndexOf(header, col)] \notin DOMAIN FLOAT_LITERALS

\* the output row of a line passed through: its own cells under the
\* columns of the input, nothing under the derived columns
PassedThrough(header, cells) ==
    [i \in 1..Len(OutFieldnames(header)) |->
        IF OutFieldnames(header)[i] \in {"minecraft_x", "minecraft_z"} THEN ""
        ELSE IF i <= Len(cells) THEN cells[i] ELSE ""]

\* a pass of the loop over a line whose latitude or longitude cell is
\* missing or no number appends the line, passed through, to the output
\* and goes on to the next line
PassThroughStep ==
    (/\ csv_pc = "rows"
     /\ csv_idx <= Len(csv_in.rows)
     /\ Len(csv_in.rows[csv_idx]) > 0
     /\ \/ BadCell(csv_in.header, csv_in.rows[csv_idx], csv_in.lat_col)
        \/ BadCell(csv_in.header, csv_in.rows[csv_idx], csv_in.lng_col))
    => /\ csv_pc' = "rows"
       /\ csv_exc' = "none"
       /\ csv_idx' = csv_idx + 1
       /\ csv_out'.rows =
              Append(csv_out.rows, PassedThrough(csv_in.header, csv_in.rows[csv_idx]))

\* C4: in CSV bulk mode every row whose latitude or longitude cell is
\* missing or non-numeric is written to the output with its original
\* columns intact and minecraft_x, minecraft_z blank, and processing
\* continues with the following rows; no such row aborts the batch.
C4_PassThrough == [][PassThroughStep]_vars

\* a required column is missing from the header of the input
SchemaError ==
    \/ csv_in.lat_col \notin Range(csv_in.header)
    \/ csv_in.lng_col \notin Range(csv_in.header)

\* C5: when the input header lacks the configured latitude or longitude
\* column, handle_csv ends with SystemExit and the output file is as it was
\* before the run: not opened, not created, not truncated, no header written.
C5_SchemaAbort ==
    (csv_pc # "idle" /\ SchemaError)
    => /\ csv_pc = "aborted"
       /\ csv_exc = "SystemExit"
       /\ csv_out = csv_out0

\* a run on a header without the longitude column has ended and the file
\* that was at the output path still holds its old rows
C5_Witness ==
    /\ csv_pc = "aborted"
    /\ csv_exc = "SystemExit"
    /\ csv_in.header = <<"name", "lat", "lon">>
    /\ csv_in.lng_col = "lng"
    /\ csv_out0 = OLD_FILE
    /\ csv_out = OLD_FILE

\* values[i] does not parse as the number the mode asks for
Unparsable(mode, s) ==
    IF mode = "lat2mc" THEN s \notin DOMAIN FLOAT_LITERALS
    ELSE s \notin DOMAIN INT_LITERALS

\* the values of the run are not two, or one of them is no number
ArgumentError ==
    \/ Len(var_values) # 2
    \/ \E i \in 1..Len(var_values) : Unparsable(var_mode.mode, var_values[i])

\* C6: in single-value mode, in both directions, a number of inline values
\* other than 2, or a value that does not parse as a number, ends the run
\* at once: no conversion function is called, nothing is written to
\* standard output and main does not return 0.
C6_ArgumentAbort ==
    (var_mode.mode # "" /\ ArgumentError)
    => /\ var_calls = <<>>
       /\ stdout = <<>>
       /\ main_ret.exc # "none"
       /\ main_ret.code # 0

\* mc2lat was given three integers and ended with SystemExit
C6_Witness ==
    /\ var_mode.mode = "mc2lat"
    /\ var_values = <<"251", "604", "251">>
    /\ main_ret.exc = "SystemExit"
    /\ var_calls = <<>>
    /\ stdout = <<>>

\* the north-south component of a planar point: y in latlng2minecraft, z in
\* kakiko2minecraft
NorthSouth(p) == IF "z" \in DOMAIN p THEN p.z ELSE p.y

\* the reference geographic point (36.138755, 139.388908)
REFERENCE_LATLNG ==
    [latitude  |-> FDec(FALSE, 36, 1387, 5500, 0, 0),
     longitude |-> FDec(FALSE, 139, 3889, 800, 0, 0)]

\* a run of lat2mc that returned 0 wrote the reference planar point
\* (-559, -395) plus the result of latlng_to_minecraft for the two values
\* against the reference geographic point
AbsoluteLat2Mc ==
    (var_mode.mode = "lat2mc" /\ main_ret.exc = "none")
    => Let(LatLngToMinecraft([latitude  |-> FLOAT_LITERALS[var_values[1]],
                              longitude |-> FLOAT_LITERALS[var_values[2]]],
                             REFERENCE_LATLNG), LAMBDA rel :
           /\ Len(stdout) = 1
           /\ var_calls = <<"latlng_to_minecraft">>
           /\ stdout[1].x = -559 + rel.val.x
           /\ NorthSouth(stdout[1]) = -395 + rel.val.y)

\* a run of mc2lat that returned 0 wrote the result of minecraft_to_latlng
\* for the two values less the reference planar point (-559, -395)
AbsoluteMc2Lat ==
    (var_mode.mode = "mc2lat" /\ main_ret.exc = "none")
    => Let(MinecraftToLatLng([x |-> INT_LITERALS[var_values[1]] + 559,
                              y |-> INT_LITERALS[var_values[2]] + 395],
                             REFERENCE_LATLNG), LAMBDA result :
           /\ Len(stdout) = 1
           /\ var_calls = <<"minecraft_to_latlng">>
           /\ stdout[1] = result.val)

\* the reference geographic point converts to (-559, -395) and back
ReferenceToReference ==
    /\ (var_mode.mode = "lat2mc" /\ var_values = <<"36.138755", "139.388908">>)
       => /\ main_ret.exc = "none"
          /\ stdout[1].x = -559
          /\ NorthSouth(stdout[1]) = -395
    /\ (var_mode.mode = "mc2lat" /\ var_values = <<"-559", "-395">>)
       => /\ main_ret.exc = "none"
          /\ stdout[1] = REFERENCE_LATLNG

\* C11: handle_var works in absolute planar coordinates around a converter
\* that sees relative offsets: lat2mc returns the reference planar point
\* (-559, -395) plus the converter's result, mc2lat subtracts it from the
\* input before the converter is called; the reference geographic point
\* converts to exactly (-559, -395) and (-559, -395) converts back to it.
C11_AbsoluteAroundCore == AbsoluteLat2Mc /\ AbsoluteMc2Lat /\ ReferenceToReference

\* lat2mc of a point north-east of the reference returned a planar point
\* that is not the reference planar point
C11_Witness ==
    /\ var_mode.mode = "lat2mc"
    /\ var_values = <<"36.147755", "139.397908">>
    /\ main_ret.exc = "none"
    /\ stdout[1].x > -559
    /\ NorthSouth(stdout[1]) > -395

\* |actual - expected| / |expected| < 0.01
WithinOnePercent(actual, expected) ==
    FLess[FMul[FAbs[FSub[actual, expected]], FInt[100]], FAbs[expected]]

\* the radius of the parallel circle at the base latitude, as
\* test_1000m_east_accuracy computes it
ExpectedParallelRadius(base_lat) ==
    FDiv[FMul[FInt[6378137], FCos[Radians[base_lat]]],
         FSqrt[FSub[FInt[1], FMul[EARTH_ECCENTRICITY_SQUARED,
                                  FSquare[FSin[Radians[base_lat]]]]]]]

\* C12: for a pure-north offset of about one kilometre the latitude change
\* returned by minecraft_to_latlng differs from offset / 111320 degrees by
\* less than 1% of it; for a pure-east offset of about one kilometre the
\* longitude change differs from degrees(offset / radius of the parallel
\* circle at the base latitude) by less than 1% of it.
C12_Accuracy ==
    (fn = INVERSE /\ Inner(point))
    => /\ (arg.minecraft.x = 0 /\ arg.minecraft.y # 0)
          => /\ ret.exc = "none"
             /\ WithinOnePercent(FSub[ret.val.latitude, arg.base.latitude],
                                 FDivInt[FInt[arg.minecraft.y], 111320])
       /\ (arg.minecraft.y = 0 /\ arg.minecraft.x # 0)
          => /\ ret.exc = "none"
             /\ WithinOnePercent(
                    FSub[ret.val.longitude, arg.base.longitude],
                    Degrees[FDiv[FInt[arg.minecraft.x],
                                 ExpectedParallelRadius(arg.base.latitude)]])

\* one step north of the reference point: the latitude returned is not the
\* flat-earth one, and is within 1% of it
C12_Witness ==
    /\ fn = INVERSE
    /\ arg.base = BASE_POINT_MAP.latlng
    /\ arg.minecraft.x = 0
    /\ arg.minecraft.y = OffsetStep
    /\ ret.exc = "none"
    /\ ret.val.latitude # FAdd[arg.base.latitude, FDivInt[FInt[OffsetStep], 111320]]
    /\ WithinOnePercent(FSub[ret.val.latitude, arg.base.latitude],
                        FDivInt[FInt[OffsetStep], 111320])

\* a call that has returned made SOLVE_ITERATIONS = 3 passes of the loop and
\* returned the estimate after the last: the value of MetersToLatitude
ReturnedAfterThree ==
    solve_pc = "returned"
    => /\ solve_iter = 3
       /\ solve_ret = solve_lat
       /\ solve_ret = MetersToLatitude(solve_arg.meters, solve_arg.base_lat)

\* the loop is entered with the estimate base_lat + meters / 111320.0
SeededFlat ==
    (solve_pc = "loop" /\ solve_iter = 0)
    => solve_lat = FAdd[solve_arg.base_lat, FDivInt[solve_arg.meters, 111320]]

\* the call never ends by an exception and never makes a fourth pass
NoOtherExit == solve_pc # "raised" /\ solve_iter <= 3

\* a pass of the loop adds residual / 111320.0 to the estimate, the residual
\* being meters less the arc length from the base to the estimate
StepAddsResidual ==
    (solve_pc = "loop" /\ solve_iter' = solve_iter + 1)
    => solve_lat' =
           FAdd[solve_lat,
                FDivInt[FSub[solve_arg.meters,
                             MeridionalArcLength(
                                 FSub[Radians[solve_lat], Radians[solve_arg.base_lat]],
                                 Radians[solve_arg.base_lat])],
                        111320]]

\* a call returns only from the loop after its third pass
ReturnsOnlyAfterThree ==
    (solve_pc = "loop" /\ solve_pc' = "returned") => solve_iter = 3

\* C13: _meters_to_latitude terminates after exactly 3 correction steps
\* whatever the offset and the residual: no convergence check, no early
\* exit; the estimate is seeded as base_lat + meters / 111320.0, each step
\* adds residual / 111320.0 to it, and the value returned is the estimate
\* after the 3rd correction.
C13_ThreeSteps ==
    /\ [](ReturnedAfterThree /\ SeededFlat /\ NoOtherExit)
    /\ [][StepAddsResidual /\ ReturnsOnlyAfterThree]_vars
    /\ (solve_pc = "loop") ~> (solve_pc = "returned")

\* a call with meters = 0, whose residual is 0 from the first pass on, has
\* returned the base latitude after three passes
C13_Witness ==
    /\ solve_pc = "returned"
    /\ solve_iter = 3
    /\ IsZero(solve_arg.meters)
    /\ solve_ret = solve_arg.base_lat

\* base longitude + degrees(x / parallel radius at latitude lat)
LongitudeAt(lat, x, base_lon) ==
    FAdd[base_lon, Degrees[FDiv[FInt[x], ParallelRadius(Radians[lat])]]]

\* the longitude returned by minecraft_to_latlng is taken on the parallel
\* of the latitude it returns, which for an offset off both axes is not the
\* longitude taken on the parallel of the base
InverseAtResultLatitude ==
    /\ ret.val.longitude
           = LongitudeAt(ret.val.latitude, arg.minecraft.x, arg.base.longitude)
    /\ (arg.minecraft.x # 0 /\ arg.minecraft.y # 0)
       => ret.val.longitude
              # LongitudeAt(arg.base.latitude, arg.minecraft.x, arg.base.longitude)

\* the x returned by latlng_to_minecraft for the point minecraft_to_latlng
\* returned is the parallel radius at the base latitude times the
\* difference of the longitudes in radians, rounded: the latitude of the
\* target has no part in it
ForwardAtBaseLatitude ==
    /\ back.exc = "none"
    /\ back.val.x
           = PyRound(FMul[ParallelRadius(Radians[arg.base.latitude]),
                          Radians[FSub[ret.val.longitude, arg.base.longitude]]]).v

\* C14: the two directions take the parallel-circle radius at different
\* latitudes: the east-west component of latlng_to_minecraft is R(base
\* latitude) times the longitude difference in radians, whatever the target
\* latitude; the longitude of minecraft_to_latlng is the base longitude plus
\* degrees(x / R(latitude returned by the latitude solve)), not R(base
\* latitude).
C14_RadiusAsymmetry ==
    (fn = "round_trip" /\ ret.exc = "none")
    => (InverseAtResultLatitude /\ ForwardAtBaseLatitude)

\* a round trip from the reference point, south-west by GridSteps steps on
\* both axes, whose x does not come back: the two radii differ
C14_Witness ==
    /\ fn = "round_trip"
    /\ arg.base = BASE_POINT_MAP.latlng
    /\ arg.minecraft.x = -(GridSteps * OffsetStep)
    /\ arg.minecraft.y = -(GridSteps * OffsetStep)
    /\ ret.exc = "none"
    /\ back.exc = "none"
    /\ back.val.x # arg.minecraft.x
    /\ back.val.y = arg.minecraft.y

\* the data rows of the input: its lines that have cells (csv.DictReader
\* takes a line without cells for no row)
DataRows == SelectSeq(csv_in.rows, LAMBDA cells : Len(cells) > 0)

\* the input header followed by minecraft_x and minecraft_z, each only if
\* the input header does not have it
ExpectedHeader ==
    csv_in.header
        \o (IF \E i \in 1..Len(csv_in.header) : csv_in.header[i] = "minecraft_x"
            THEN <<>> ELSE <<"minecraft_x">>)
        \o (IF \E i \in 1..Len(csv_in.header) : csv_in.header[i] = "minecraft_z"
            THEN <<>> ELSE <<"minecraft_z">>)

\* output row k is input data row k: under every column of the input that
\* is no derived column it holds the cell of that row
SameRow(k) ==
    /\ Len(csv_out.rows[k]) = Len(csv_out.header)
    /\ \A i \in 1..Len(csv_in.header) :
          csv_in.header[i] \notin {"minecraft_x", "minecraft_z"}
          => csv_out.rows[k][i] = (IF i <= Len(DataRows[k]) THEN DataRows[k][i] ELSE "")

\* C15: when handle_csv completes on an input that has the required
\* columns, the output has exactly one data row per input data row, in the
\* input order, and its header is the input header followed by minecraft_x
\* and minecraft_z, each appended only if the input header does not already
\* contain it: such a column is kept in place and never duplicated.
C15_RowsAndHeader ==
    csv_pc = "done"
    => /\ csv_out.exists
       /\ csv_out.header = ExpectedHeader
       /\ \A name \in {"minecraft_x", "minecraft_z"} :
             Cardinality({i \in 1..Len(csv_out.header) : csv_out.header[i] = name}) = 1
       /\ Len(csv_out.rows) = Len(DataRows)
       /\ \A k \in 1..Len(DataRows) : SameRow(k)

\* a completed run on an input whose first column is minecraft_x, with a
\* row that is converted and a blank line: the column is in place, its
\* value overwritten, and only minecraft_z is appended
C15_Witness ==
    /\ csv_pc = "done"
    /\ csv_in.header = <<"minecraft_x", "lat", "lng">>
    /\ csv_in.rows = << <<"a", "36.147755", "139.397908">>, <<>> >>
    /\ csv_out.header = <<"minecraft_x", "lat", "lng", "minecraft_z">>
    /\ csv_out.rows = << <<"251", "36.147755", "139.397908", "604">> >>

====
